---- MODULE Spec2Model ----
(***************************************************************************)
(* Model of the Tauri command bridge of src-tauri/src/main.rs: the three   *)
(* commands export_playlist, get_playlists and check_connection each build *)
(* an "npm run dev -- ..." command line, run it with Command::output() and *)
(* map the outcome to an ExportResponse.                                   *)
(*                                                                         *)
(* Text is modelled by TLA+ strings, process output by sequences of bytes  *)
(* (0..255), Option<T> by a sequence of length 0 (None) or 1 (Some).       *)
(***************************************************************************)
EXTENDS Integers, Sequences, FiniteSets, TLC

(***************************************************************************)
(* Bounds                                                                  *)
(***************************************************************************)
\* number of invocations the front end issues (they may overlap in time)
NumInvocations == 2
\* longest enumerated stdout / stderr byte string of the output model
MaxOutLen == 2

Invocations == 1..NumInvocations

(***************************************************************************)
(* Option<T>                                                               *)
(***************************************************************************)
None == <<>>
Some(x) == <<x>>

(***************************************************************************)
(* Library conversions used by the handlers                                *)
(***************************************************************************)
Digits == <<"0", "1", "2", "3", "4", "5", "6", "7", "8", "9">>

\* u16::to_string : decimal rendering, most significant digit first,
\* no sign, no leading zero
RECURSIVE to_string(_)
to_string(n) ==
    IF n < 10 THEN Digits[n + 1]
    ELSE to_string(n \div 10) \o Digits[(n % 10) + 1]

AsciiTable ==
  << " ", "!", "\"", "#", "$", "%", "&", "'", "(", ")", "*", "+", ",", "-", ".", "/",
     "0", "1", "2", "3", "4", "5", "6", "7", "8", "9", ":", ";", "<", "=", ">", "?",
     "@", "A", "B", "C", "D", "E", "F", "G", "H", "I", "J", "K", "L", "M", "N", "O",
     "P", "Q", "R", "S", "T", "U", "V", "W", "X", "Y", "Z", "[", "\\", "]", "^", "_",
     "a", "b", "c", "d", "e", "f", "g", "h", "i", "j", "k", "l", "m", "n", "o",
     "p", "q", "r", "s", "t", "u", "v", "w", "x", "y", "z", "{", "|", "}", "~" >>

\* the character of a one-byte UTF-8 sequence: tab, newline and the
\* characters 0x20..0x7E except the grave accent 0x60, which the table omits
AsciiChar(b) ==
    CASE b = 9  -> "\t"
      [] b = 10 -> "\n"
      [] b \in 32..95 -> AsciiTable[b - 31]
      [] b \in 97..126 -> AsciiTable[b - 32]

\* the character of a well-formed two-byte UTF-8 sequence
TwoByteChar(b1, b2) ==
    LET cp == (b1 - 192) * 64 + (b2 - 128) IN
    CASE cp = 233 -> "é"
      [] cp = 201 -> "É"

\* U+FFFD, substituted for every ill-formed byte
REPLACEMENT_CHARACTER == "�"

\* String::from_utf8_lossy(..).to_string() on one- and two-byte sequences:
\* well-formed sequences decode to their character, every other byte is
\* replaced by U+FFFD and decoding continues with the next byte
RECURSIVE from_utf8_lossy(_)
from_utf8_lossy(bytes) ==
    IF bytes = <<>> THEN ""
    ELSE LET b == Head(bytes) IN
         IF b < 128
         THEN AsciiChar(b) \o from_utf8_lossy(Tail(bytes))
         ELSE IF b \in 194..223 /\ Len(bytes) >= 2 /\ bytes[2] \in 128..191
         THEN TwoByteChar(b, bytes[2]) \o from_utf8_lossy(Tail(Tail(bytes)))
         ELSE REPLACEMENT_CHARACTER \o from_utf8_lossy(Tail(bytes))

\* ExitStatus::success : the child exited with code 0
success(status) == status = 0

\* Display of std::io::Error built from an OS error number
io_Error_Display(e) ==
    (CASE e = 2  -> "No such file or directory"
       [] e = 13 -> "Permission denied"
       [] e = 24 -> "Too many open files")
    \o " (os error " \o to_string(e) \o ")"

(***************************************************************************)
(* std::process::Command and io::Result<Output>                            *)
(***************************************************************************)
Command_new(program) == [program |-> program, args |-> <<>>]
args(c, tokens) == [c EXCEPT !.args = @ \o tokens]
arg(c, token) == [c EXCEPT !.args = Append(@, token)]

Output(status, stdout, stderr) ==
    [status |-> status, stdout |-> stdout, stderr |-> stderr]
Ok(output) == [ok |-> TRUE, output |-> output, e |-> 0]
Err(e) == [ok |-> FALSE, output |-> Output(0, <<>>, <<>>), e |-> e]

ExportResponse(s, m, f) == [success |-> s, message |-> m, file_path |-> f]

(***************************************************************************)
(* export_playlist                                                         *)
(***************************************************************************)
\* variant: the "pptx" comparison is missing, every format takes the export branch
export_playlist_cmd_nopptx(playlist_uuid, export_format, host, port) ==
    LET port_str == to_string(port)
        cmd0 == args(Command_new("npm"), <<"run", "dev", "--">>)
        cmd2 == args(cmd0, <<"export", playlist_uuid>>)
        cmd1 == IF export_format = "json" THEN arg(cmd2, "--json") ELSE cmd2
    IN args(cmd1, <<"--host", host, "--port", port_str>>)

\* variant: "--json" is appended in the export branch whatever the format
export_playlist_cmd_alwaysjson(playlist_uuid, export_format, host, port) ==
    LET port_str == to_string(port)
        cmd0 == args(Command_new("npm"), <<"run", "dev", "--">>)
        cmd1 == IF export_format = "pptx"
                THEN args(cmd0, <<"pptx", playlist_uuid>>)
                ELSE arg(args(cmd0, <<"export", playlist_uuid>>), "--json")
    IN args(cmd1, <<"--host", host, "--port", port_str>>)

\* variant: the host and port tokens are appended before the format tokens
export_playlist_cmd_tailfirst(playlist_uuid, export_format, host, port) ==
    LET port_str == to_string(port)
        cmd0 == args(args(Command_new("npm"), <<"run", "dev", "--">>),
                     <<"--host", host, "--port", port_str>>)
    IN IF export_format = "pptx"
       THEN args(cmd0, <<"pptx", playlist_uuid>>)
       ELSE LET cmd2 == args(cmd0, <<"export", playlist_uuid>>) IN
            IF export_format = "json" THEN arg(cmd2, "--json") ELSE cmd2

export_playlist_cmd(playlist_uuid, export_format, host, port) ==
    LET port_str == to_string(port)
        cmd0 == args(Command_new("npm"), <<"run", "dev", "--">>)
        cmd1 == IF export_format = "pptx"
                THEN args(cmd0, <<"pptx", playlist_uuid>>)
                ELSE LET cmd2 == args(cmd0, <<"export", playlist_uuid>>) IN
                     IF export_format = "json" THEN arg(cmd2, "--json") ELSE cmd2
    IN args(cmd1, <<"--host", host, "--port", port_str>>)

\* variant: a successful export reports its stdout as file_path
export_playlist_match_path(result) ==
    IF result.ok
    THEN LET output == result.output
             stdout == from_utf8_lossy(output.stdout)
             stderr == from_utf8_lossy(output.stderr)
         IN ExportResponse(success(output.status),
                           IF success(output.status) THEN stdout ELSE stderr,
                           IF success(output.status) THEN Some(stdout) ELSE None)
    ELSE ExportResponse(FALSE,
                        "Failed to run export: " \o io_Error_Display(result.e),
                        None)

export_playlist_match(result) ==
    IF result.ok
    THEN LET output == result.output
             stdout == from_utf8_lossy(output.stdout)
             stderr == from_utf8_lossy(output.stderr)
         IN ExportResponse(success(output.status),
                           IF success(output.status) THEN stdout ELSE stderr,
                           None)
    ELSE ExportResponse(FALSE,
                        "Failed to run export: " \o io_Error_Display(result.e),
                        None)

(***************************************************************************)
(* get_playlists                                                           *)
(***************************************************************************)
get_playlists_cmd(host, port) ==
    LET port_str == to_string(port) IN
    args(Command_new("npm"),
         <<"run", "dev", "--", "playlists", "--json",
           "--host", host, "--port", port_str>>)

\* variant: the two streams are swapped in the message
get_playlists_match_swapped(result) ==
    IF result.ok
    THEN LET output == result.output
             stdout == from_utf8_lossy(output.stdout)
             stderr == from_utf8_lossy(output.stderr)
         IN ExportResponse(success(output.status),
                           IF success(output.status) THEN stderr ELSE stdout,
                           None)
    ELSE ExportResponse(FALSE,
                        "Failed to get playlists: " \o io_Error_Display(result.e),
                        None)

get_playlists_match(result) ==
    IF result.ok
    THEN LET output == result.output
             stdout == from_utf8_lossy(output.stdout)
             stderr == from_utf8_lossy(output.stderr)
         IN ExportResponse(success(output.status),
                           IF success(output.status) THEN stdout ELSE stderr,
                           None)
    ELSE ExportResponse(FALSE,
                        "Failed to get playlists: " \o io_Error_Display(result.e),
                        None)

(***************************************************************************)
(* check_connection                                                        *)
(***************************************************************************)
\* variant: the "--json" flag of get_playlists is passed to status as well
check_connection_cmd_json(host, port) ==
    LET port_str == to_string(port) IN
    args(Command_new("npm"),
         <<"run", "dev", "--", "status", "--json",
           "--host", host, "--port", port_str>>)

check_connection_cmd(host, port) ==
    LET port_str == to_string(port) IN
    args(Command_new("npm"),
         <<"run", "dev", "--", "status",
           "--host", host, "--port", port_str>>)

\* variant: the diagnostic leaves the io::Error out
check_connection_match_noerr(result) ==
    IF result.ok
    THEN LET output == result.output
             stdout == from_utf8_lossy(output.stdout)
             stderr == from_utf8_lossy(output.stderr)
         IN ExportResponse(success(output.status),
                           IF success(output.status) THEN stdout ELSE stderr,
                           None)
    ELSE ExportResponse(FALSE, "Connection failed: ", None)

check_connection_match(result) ==
    IF result.ok
    THEN LET output == result.output
             stdout == from_utf8_lossy(output.stdout)
             stderr == from_utf8_lossy(output.stderr)
         IN ExportResponse(success(output.status),
                           IF success(output.status) THEN stdout ELSE stderr,
                           None)
    ELSE ExportResponse(FALSE,
                        "Connection failed: " \o io_Error_Display(result.e),
                        None)

(***************************************************************************)
(* Requests and the invoke handler of main                                 *)
(***************************************************************************)
ExportRequest(playlist_uuid, export_format, host, port) ==
    [command |-> "export_playlist", playlist_uuid |-> playlist_uuid,
     export_format |-> export_format, host |-> host, port |-> port]
ListRequest(host, port) ==
    [command |-> "get_playlists", playlist_uuid |-> "",
     export_format |-> "", host |-> host, port |-> port]
StatusRequest(host, port) ==
    [command |-> "check_connection", playlist_uuid |-> "",
     export_format |-> "", host |-> host, port |-> port]

\* the command line the handler registered for req.command builds
invoke_handler_cmd(req) ==
    CASE req.command = "export_playlist" ->
           export_playlist_cmd(req.playlist_uuid, req.export_format,
                               req.host, req.port)
      [] req.command = "get_playlists" -> get_playlists_cmd(req.host, req.port)
      [] req.command = "check_connection" ->
           check_connection_cmd(req.host, req.port)

\* the response that handler makes of the result of Command::output()
invoke_handler_match(req, result) ==
    CASE req.command = "export_playlist" -> export_playlist_match(result)
      [] req.command = "get_playlists" -> get_playlists_match(result)
      [] req.command = "check_connection" -> check_connection_match(result)

(***************************************************************************)
(* State                                                                   *)
(***************************************************************************)
VARIABLES
    pc,        \* per invocation: "Idle", "Running", "Completed", "LaunchFailed"
    request,   \* per invocation: Option of the request the handler was given
    cmd,       \* per invocation: Option of the Command the handler built
    child,     \* per invocation: "none", "spawn_failed", "running", "exited"
    result,    \* per invocation: Option of what Command::output() yields
    response,  \* per invocation: Option of the ExportResponse returned
    launches,  \* per invocation: number of calls of Command::output()
    returned   \* per invocation: number of responses handed to the caller

vars == <<pc, request, cmd, child, result, response, launches, returned>>

Init ==
    /\ pc = [i \in Invocations |-> "Idle"]
    /\ request = [i \in Invocations |-> None]
    /\ cmd = [i \in Invocations |-> None]
    /\ child = [i \in Invocations |-> "none"]
    /\ result = [i \in Invocations |-> None]
    /\ response = [i \in Invocations |-> None]
    /\ launches = [i \in Invocations |-> 0]
    /\ returned = [i \in Invocations |-> 0]

(***************************************************************************)
(* Actions                                                                 *)
(***************************************************************************)
\* The front end invokes a command: the handler builds its Command and calls
\* output(), which either fails to spawn the child (spawn = Some(errno)) or
\* spawns it and blocks until it terminates (spawn = None).
Invoke(i, req, spawn) ==
    /\ pc[i] = "Idle"
    /\ pc' = [pc EXCEPT ![i] = "Running"]
    /\ request' = [request EXCEPT ![i] = Some(req)]
    /\ cmd' = [cmd EXCEPT ![i] = Some(invoke_handler_cmd(req))]
    /\ launches' = [launches EXCEPT ![i] = @ + 1]
    /\ IF spawn = None
       THEN /\ child' = [child EXCEPT ![i] = "running"]
            /\ result' = result
       ELSE /\ child' = [child EXCEPT ![i] = "spawn_failed"]
            /\ result' = [result EXCEPT ![i] = Some(Err(spawn[1]))]
    /\ UNCHANGED <<response, returned>>

\* The child of invocation i terminates: the environment decides its exit
\* status and what it wrote to stdout and stderr.
ChildExit(i, status, stdout, stderr) ==
    /\ child[i] = "running"
    /\ child' = [child EXCEPT ![i] = "exited"]
    /\ result' = [result EXCEPT ![i] = Some(Ok(Output(status, stdout, stderr)))]
    /\ UNCHANGED <<pc, request, cmd, response, launches, returned>>

\* variant: the captured output is kept in one buffer shared by all
\* invocations, so a handler may read the output of another one's child
Complete_shared(i) ==
    /\ pc[i] = "Running"
    /\ child[i] = "exited"
    /\ pc' = [pc EXCEPT ![i] = "Completed"]
    /\ \E j \in Invocations :
         /\ child[j] = "exited"
         /\ response' = [response EXCEPT
                           ![i] = Some(invoke_handler_match(request[i][1], result[j][1]))]
    /\ returned' = [returned EXCEPT ![i] = @ + 1]
    /\ UNCHANGED <<request, cmd, child, result, launches>>

\* variant: the handlers run under one lock that is held while a child runs
Complete_locked(i) ==
    /\ pc[i] = "Running"
    /\ child[i] = "exited"
    /\ \A j \in Invocations \ {i} : child[j] # "running"
    /\ pc' = [pc EXCEPT ![i] = "Completed"]
    /\ response' = [response EXCEPT
                      ![i] = Some(invoke_handler_match(request[i][1], result[i][1]))]
    /\ returned' = [returned EXCEPT ![i] = @ + 1]
    /\ UNCHANGED <<request, cmd, child, result, launches>>

\* output() returns Ok(output): the handler returns its response.
Complete(i) ==
    /\ pc[i] = "Running"
    /\ child[i] = "exited"
    /\ pc' = [pc EXCEPT ![i] = "Completed"]
    /\ response' = [response EXCEPT
                      ![i] = Some(invoke_handler_match(request[i][1], result[i][1]))]
    /\ returned' = [returned EXCEPT ![i] = @ + 1]
    /\ UNCHANGED <<request, cmd, child, result, launches>>

\* variant: a failed launch is retried once before the diagnostic is returned
LaunchFail_retry(i) ==
    /\ pc[i] = "Running"
    /\ child[i] = "spawn_failed"
    /\ IF launches[i] < 2
       THEN /\ launches' = [launches EXCEPT ![i] = @ + 1]
            /\ UNCHANGED <<pc, request, cmd, child, result, response, returned>>
       ELSE /\ pc' = [pc EXCEPT ![i] = "LaunchFailed"]
            /\ response' = [response EXCEPT
                              ![i] = Some(invoke_handler_match(request[i][1], result[i][1]))]
            /\ returned' = [returned EXCEPT ![i] = @ + 1]
            /\ UNCHANGED <<request, cmd, child, result, launches>>

\* output() returns Err(e): the handler returns its diagnostic response.
LaunchFail(i) ==
    /\ pc[i] = "Running"
    /\ child[i] = "spawn_failed"
    /\ pc' = [pc EXCEPT ![i] = "LaunchFailed"]
    /\ response' = [response EXCEPT
                      ![i] = Some(invoke_handler_match(request[i][1], result[i][1]))]
    /\ returned' = [returned EXCEPT ![i] = @ + 1]
    /\ UNCHANGED <<request, cmd, child, result, launches>>

(***************************************************************************)
(* Inputs                                                                  *)
(***************************************************************************)
\* all byte strings over alphabet of length at most n
RECURSIVE ByteStrings(_, _)
ByteStrings(alphabet, n) ==
    IF n = 0 THEN {<<>>}
    ELSE LET shorter == ByteStrings(alphabet, n - 1) IN
         shorter \cup {Append(s, b) : s \in shorter, b \in alphabet}

\* "K" and the two bytes of "é": a lead byte and a continuation byte, each
\* of them ill-formed when it does not stand in that pair
OutAlphabet == {75, 195, 169}
OKBytes == <<79, 75, 10>>
NotFoundBytes == <<110, 111, 116, 32, 102, 111, 117, 110, 100, 10>>
OutTexts == ByteStrings(OutAlphabet, MaxOutLen) \cup {OKBytes, NotFoundBytes}
ExitCodes == {0, 1, 255}
OsErrors == {2, 13, 24}

Hosts == {"localhost", "10.0.0.5"}
Ports == {0, 7, 1025, 65535}
Uuids == {"uuid-1", "--json", ""}
Formats == {"pptx", "json", "", "default", "JSON", "PPTX", "xml"}

\* requests of the interleaving specification
Requests ==
    {ExportRequest("uuid-1", f, "localhost", 1025) : f \in {"pptx", "json"}}
    \cup {ListRequest(h, p) : h \in Hosts, p \in {0, 65535}}
    \cup {StatusRequest(h, p) : h \in Hosts, p \in {0, 65535}}

\* requests of the argument-vector specification
ArgRequests ==
    {ExportRequest(u, f, h, p) : u \in Uuids, f \in Formats, h \in Hosts, p \in Ports}
    \cup {ListRequest("localhost", 1025), StatusRequest("localhost", 1025)}

\* requests of the outcome specification
OutRequests ==
    {ExportRequest("uuid-1", "json", "localhost", 1025),
     ListRequest("localhost", 1025), StatusRequest("localhost", 1025)}

\* outcomes of a child in the interleaving specification
Outcomes ==
    {Output(0, OKBytes, <<>>), Output(1, <<>>, NotFoundBytes)}

(***************************************************************************)
(* Specifications                                                          *)
(***************************************************************************)
\* any number of overlapping invocations
Next ==
    \/ \E i \in Invocations, req \in Requests, spawn \in {None, Some(2)} :
          Invoke(i, req, spawn)
    \/ \E i \in Invocations, o \in Outcomes :
          ChildExit(i, o.status, o.stdout, o.stderr)
    \/ \E i \in Invocations : Complete(i)
    \/ \E i \in Invocations : LaunchFail(i)

Spec == Init /\ [][Next]_vars

\* output() returns as soon as the child has terminated or failed to spawn;
\* nothing obliges a child to terminate
Fairness ==
    \A i \in Invocations : WF_vars(Complete(i)) /\ WF_vars(LaunchFail(i))

\* overlapping invocations, one request per command
NextFair ==
    \/ \E i \in Invocations, req \in OutRequests, spawn \in {None, Some(2)} :
          Invoke(i, req, spawn)
    \/ \E i \in Invocations, o \in Outcomes :
          ChildExit(i, o.status, o.stdout, o.stderr)
    \/ \E i \in Invocations : Complete(i)
    \/ \E i \in Invocations : LaunchFail(i)

FairSpec == Init /\ [][NextFair]_vars /\ Fairness

\* one invocation, every combination of the arguments
NextArgs ==
    \/ \E req \in ArgRequests, spawn \in {None, Some(2)} : Invoke(1, req, spawn)
    \/ \E o \in Outcomes : ChildExit(1, o.status, o.stdout, o.stderr)
    \/ Complete(1)
    \/ LaunchFail(1)

SpecArgs == Init /\ [][NextArgs]_vars

\* one invocation, every outcome of the child
NextOut ==
    \/ \E req \in OutRequests, spawn \in {None} \cup {Some(e) : e \in OsErrors} :
          Invoke(1, req, spawn)
    \/ \E status \in ExitCodes, stdout \in OutTexts, stderr \in OutTexts :
          ChildExit(1, status, stdout, stderr)
    \/ Complete(1)
    \/ LaunchFail(1)

SpecOut == Init /\ [][NextOut]_vars

TypeOK ==
    /\ pc \in [Invocations -> {"Idle", "Running", "Completed", "LaunchFailed"}]
    /\ child \in [Invocations -> {"none", "spawn_failed", "running", "exited"}]
    /\ \A i \in Invocations : launches[i] \in 0..1 /\ returned[i] \in 0..1

(***************************************************************************)
(* Vocabulary of the properties                                            *)
(***************************************************************************)
Req(i) == request[i][1]
Args(i) == cmd[i][1].args
Res(i) == result[i][1]
Resp(i) == response[i][1]
Called(i) == pc[i] # "Idle"
IsExport(i) == Called(i) /\ Req(i).command = "export_playlist"

\* the decimal numerals of the enumerated ports, written out
PortText(p) ==
    CASE p = 0 -> "0"
      [] p = 7 -> "7"
      [] p = 1025 -> "1025"
      [] p = 65535 -> "65535"

\* the text std prints for the enumerated OS errors, written out
OsErrorText(e) ==
    CASE e = 2 -> "No such file or directory (os error 2)"
      [] e = 13 -> "Permission denied (os error 13)"
      [] e = 24 -> "Too many open files (os error 24)"

\* the fixed part of each command's launch diagnostic
DiagnosticPrefix(command) ==
    CASE command = "export_playlist" -> "Failed to run export: "
      [] command = "get_playlists" -> "Failed to get playlists: "
      [] command = "check_connection" -> "Connection failed: "

Count(seq, token) == Cardinality({k \in DOMAIN seq : seq[k] = token})
HostPortTail(req) == <<"--host", req.host, "--port", PortText(req.port)>>

(***************************************************************************)
(* C1                                                                      *)
(***************************************************************************)
\* C1: whenever the child of an invocation of any of the three commands was
\* launched and terminated, the response has success = TRUE and message = the
\* decoded stdout exactly when the exit code is 0, and success = FALSE and
\* message = the decoded stderr for every other exit code; exit 0 with stdout
\* "OK\n" gives {TRUE, "OK\n"}, exit 1 with stderr "not found\n" gives
\* {FALSE, "not found\n"}; the text of the other stream is not the message
\* unless the two streams decode to the same text.
C1_ExitStatusSelectsStream ==
    \A i \in Invocations :
      pc[i] = "Completed" =>
        LET o == Res(i).output
            r == Resp(i)
            selected == IF o.status = 0 THEN o.stdout ELSE o.stderr
            other == IF o.status = 0 THEN o.stderr ELSE o.stdout
        IN /\ Res(i).ok
           /\ r.success = (o.status = 0)
           /\ r.message = from_utf8_lossy(selected)
           /\ from_utf8_lossy(other) # from_utf8_lossy(selected)
                => r.message # from_utf8_lossy(other)
           /\ selected = OKBytes => r.message = "OK\n"
           /\ selected = NotFoundBytes => r.message = "not found\n"
           /\ selected = <<195, 169>> => r.message = "é"
           /\ selected = <<75, 169>> => r.message = "K" \o REPLACEMENT_CHARACTER
           /\ selected = <<195, 75>> => r.message = REPLACEMENT_CHARACTER \o "K"
           /\ selected = <<195, 195, 169>> =>
                r.message = REPLACEMENT_CHARACTER \o "é"

C1_Witness ==
    /\ pc[1] = "Completed"
    /\ Req(1).command = "get_playlists"
    /\ Res(1).output = Output(255, OKBytes, NotFoundBytes)
    /\ Resp(1) = ExportResponse(FALSE, "not found\n", None)

(***************************************************************************)
(* C2                                                                      *)
(***************************************************************************)
\* C2: if the child of an invocation of any of the three commands cannot be
\* launched, the invocation still ends with one response returned as a value:
\* success = FALSE, message = the command's diagnostic prefix followed by the
\* text of the OS error (so it is not empty), file_path = None; no child ran,
\* so no stdout or stderr text is used.
C2_LaunchFailureIsAResponse ==
    \A i \in Invocations :
      /\ child[i] = "spawn_failed" => pc[i] \in {"Running", "LaunchFailed"}
      /\ pc[i] = "LaunchFailed" =>
           /\ child[i] = "spawn_failed"
           /\ ~Res(i).ok
           /\ returned[i] = 1
           /\ Resp(i).success = FALSE
           /\ Resp(i).file_path = None
           /\ Len(Resp(i).message) > Len(OsErrorText(Res(i).e))
           /\ Resp(i).message =
                DiagnosticPrefix(Req(i).command) \o OsErrorText(Res(i).e)

C2_Witness ==
    /\ pc[1] = "LaunchFailed"
    /\ Req(1).command = "check_connection"
    /\ Res(1).e = 13
    /\ Resp(1).message = "Connection failed: Permission denied (os error 13)"

(***************************************************************************)
(* C3                                                                      *)
(***************************************************************************)
\* C3: for every playlist_uuid, host and port, export_playlist called with
\* export_format = "pptx" runs npm with exactly the arguments run, dev, --,
\* pptx, playlist_uuid, --host, host, --port, port in decimal: "pptx" and the
\* uuid come right after the prefix, and the only "--json" or "export"
\* tokens in the vector are those the caller passed as uuid or host.
C3_PptxVector ==
    \A i \in Invocations :
      (IsExport(i) /\ Req(i).export_format = "pptx") =>
        /\ cmd[i][1].program = "npm"
        /\ SubSeq(Args(i), 1, 3) = <<"run", "dev", "--">>
        /\ SubSeq(Args(i), 4, 5) = <<"pptx", Req(i).playlist_uuid>>
        /\ Args(i) = <<"run", "dev", "--", "pptx", Req(i).playlist_uuid>>
                       \o HostPortTail(Req(i))
        /\ Count(Args(i), "--json")
             = Count(<<Req(i).playlist_uuid, Req(i).host>>, "--json")
        /\ Count(Args(i), "export")
             = Count(<<Req(i).playlist_uuid, Req(i).host>>, "export")

C3_Witness ==
    /\ pc[1] = "Running"
    /\ Req(1) = ExportRequest("--json", "pptx", "10.0.0.5", 65535)
    /\ Args(1) = <<"run", "dev", "--", "pptx", "--json",
                   "--host", "10.0.0.5", "--port", "65535">>

(***************************************************************************)
(* C4                                                                      *)
(***************************************************************************)
\* the vector export_format = "json" gives for the other arguments of req
JsonVector(req) ==
    <<"run", "dev", "--", "export", req.playlist_uuid, "--json">>
      \o HostPortTail(req)

\* seq without its k-th element
RemoveAt(seq, k) == SubSeq(seq, 1, k - 1) \o SubSeq(seq, k + 1, Len(seq))

\* C4: for every playlist_uuid, host and port and every export_format other
\* than "pptx", export_playlist is carried out (not rejected) and builds run,
\* dev, --, export, playlist_uuid, then "--json" if and only if export_format
\* is exactly "json", then the host and port tokens; for every other format
\* ("", "default", "xml", "JSON", "PPTX") the vector is the "json" vector with
\* its single "--json" token removed.
C4_ExportVector ==
    \A i \in Invocations :
      (IsExport(i) /\ Req(i).export_format # "pptx") =>
        /\ launches[i] = 1
        /\ cmd[i][1].program = "npm"
        /\ SubSeq(Args(i), 1, 5)
             = <<"run", "dev", "--", "export", Req(i).playlist_uuid>>
        /\ (Args(i)[6] = "--json" /\ Len(Args(i)) = 10)
             <=> Req(i).export_format = "json"
        /\ Req(i).export_format = "json" => Args(i) = JsonVector(Req(i))
        /\ Req(i).export_format # "json" =>
             Args(i) = RemoveAt(JsonVector(Req(i)), 6)

C4_Witness ==
    /\ pc[1] = "Running"
    /\ Req(1) = ExportRequest("uuid-1", "JSON", "localhost", 1025)
    /\ Args(1) = <<"run", "dev", "--", "export", "uuid-1",
                   "--host", "localhost", "--port", "1025">>

(***************************************************************************)
(* C5                                                                      *)
(***************************************************************************)
\* C5: for every export_format, playlist_uuid, host and port, the vector
\* export_playlist builds ends with the four tokens --host, host, --port and
\* the decimal numeral of the port (a value in 0..65535); they are appended
\* once, after the two or three format-dependent tokens, and the host is one
\* unmodified token.
C5_HostPortTail ==
    \A i \in Invocations :
      IsExport(i) =>
        LET n == Len(Args(i)) IN
        /\ Req(i).port \in 0..65535
        /\ n \in {9, 10}
        /\ SubSeq(Args(i), n - 3, n) = HostPortTail(Req(i))
        /\ Args(i)[n - 2] = Req(i).host
        /\ Count(Args(i), "--host")
             = 1 + Count(<<Req(i).playlist_uuid, Req(i).host>>, "--host")
        /\ Count(Args(i), "--port")
             = 1 + Count(<<Req(i).playlist_uuid, Req(i).host>>, "--port")

C5_Witness ==
    /\ pc[1] = "Running"
    /\ Req(1) = ExportRequest("", "json", "10.0.0.5", 0)
    /\ SubSeq(Args(1), 7, 10) = <<"--host", "10.0.0.5", "--port", "0">>

(***************************************************************************)
(* C6                                                                      *)
(***************************************************************************)
\* C6: get_playlists(host, port) always runs npm with exactly run, dev, --,
\* playlists, --json, --host, host, --port, port in decimal, and
\* check_connection(host, port) with exactly run, dev, --, status, --host,
\* host, --port, port in decimal; two invocations of the same one of them
\* with the same host and port build the same vector, whatever the other
\* invocations are doing or have done.
C6_FixedVectors ==
    \A i \in Invocations :
      /\ (Called(i) /\ Req(i).command = "get_playlists") =>
           /\ cmd[i][1].program = "npm"
           /\ Args(i) = <<"run", "dev", "--", "playlists", "--json">>
                          \o HostPortTail(Req(i))
      /\ (Called(i) /\ Req(i).command = "check_connection") =>
           /\ cmd[i][1].program = "npm"
           /\ Args(i) = <<"run", "dev", "--", "status">> \o HostPortTail(Req(i))
      /\ \A j \in Invocations :
           (/\ Called(i) /\ Called(j)
            /\ Req(i).command \in {"get_playlists", "check_connection"}
            /\ Req(i).command = Req(j).command
            /\ Req(i).host = Req(j).host
            /\ Req(i).port = Req(j).port) => cmd[i] = cmd[j]

C6_Witness ==
    /\ pc[1] = "Completed"
    /\ pc[2] = "Running"
    /\ Req(1) = ListRequest("10.0.0.5", 65535)
    /\ Req(2) = Req(1)
    /\ Args(2) = <<"run", "dev", "--", "playlists", "--json",
                   "--host", "10.0.0.5", "--port", "65535">>

(***************************************************************************)
(* C7                                                                      *)
(***************************************************************************)
\* C7: in every response of any of the three commands, whether the child
\* exited with 0, exited with another code or could not be launched, and
\* whatever invocations came before, file_path is None.
C7_FilePathAbsent ==
    \A i \in Invocations :
      /\ response[i] # None => Resp(i).file_path = None
      /\ pc[i] \in {"Completed", "LaunchFailed"} => response[i] # None

C7_Witness ==
    /\ pc[1] = "Completed" /\ Resp(1).success
    /\ pc[2] = "LaunchFailed"
    /\ Req(1).command = "check_connection"
    /\ Req(2).command = "export_playlist"

(***************************************************************************)
(* C8                                                                      *)
(***************************************************************************)
\* the vector a request asks for, written out per command
OwnArgs(req) ==
    <<"run", "dev", "--">> \o
    (CASE req.command = "get_playlists" -> <<"playlists", "--json">>
       [] req.command = "check_connection" -> <<"status">>
       [] req.command = "export_playlist" /\ req.export_format = "pptx" ->
            <<"pptx", req.playlist_uuid>>
       [] req.command = "export_playlist" /\ req.export_format = "json" ->
            <<"export", req.playlist_uuid, "--json">>
       [] OTHER -> <<"export", req.playlist_uuid>>)
    \o HostPortTail(req)

\* the response a request and the outcome of its own child ask for
OwnResponse(req, res) ==
    IF res.ok
    THEN IF res.output.status = 0
         THEN ExportResponse(TRUE, from_utf8_lossy(res.output.stdout), None)
         ELSE ExportResponse(FALSE, from_utf8_lossy(res.output.stderr), None)
    ELSE ExportResponse(FALSE,
                        DiagnosticPrefix(req.command) \o OsErrorText(res.e),
                        None)

\* a step that leaves i's position and i's child alone leaves all of i alone
StepLeavesAlone(i) ==
    (pc'[i] = pc[i] /\ child'[i] = child[i]) =>
      /\ request'[i] = request[i]
      /\ cmd'[i] = cmd[i]
      /\ result'[i] = result[i]
      /\ response'[i] = response[i]
      /\ launches'[i] = launches[i]
      /\ returned'[i] = returned[i]

\* C8: when invocations of the same or of different commands overlap in any
\* interleaving, the argument vector of each is the one its own request asks
\* for and its response the one its own request and own child's outcome ask
\* for, and every step of one invocation or of its child leaves the request,
\* command, result and response of every other invocation unchanged.
C8_Isolation ==
    /\ [](\A i \in Invocations :
            /\ cmd[i] # None => Args(i) = OwnArgs(Req(i))
            /\ response[i] # None => Resp(i) = OwnResponse(Req(i), Res(i)))
    /\ [][\A i \in Invocations : StepLeavesAlone(i)]_vars

C8_Witness ==
    /\ pc[1] = "Completed"
    /\ pc[2] = "Completed"
    /\ Req(1).command = "export_playlist"
    /\ Req(2).command = "check_connection"
    /\ Res(1).output # Res(2).output
    /\ Resp(1) = ExportResponse(FALSE, "not found\n", None)
    /\ Resp(2) = ExportResponse(TRUE, "OK\n", None)

(***************************************************************************)
(* C9                                                                      *)
(***************************************************************************)
Terminal == {"Completed", "LaunchFailed"}

\* C9: every invocation calls Command::output() exactly once and returns
\* exactly one response: from Running it moves only to Completed or to
\* LaunchFailed, which it never leaves; no second launch follows a launch
\* failure or a non-zero exit; and a response exists only once the child has
\* terminated or failed to launch, never while the child is running.
C9_OneLaunchOneResponse ==
    /\ [](\A i \in Invocations :
            /\ launches[i] = (IF Called(i) THEN 1 ELSE 0)
            /\ returned[i] = (IF pc[i] \in Terminal THEN 1 ELSE 0)
            /\ (response[i] # None) <=> pc[i] \in Terminal
            /\ pc[i] = "Completed" => child[i] = "exited"
            /\ pc[i] = "LaunchFailed" => child[i] = "spawn_failed"
            /\ child[i] = "running" => response[i] = None)
    /\ [][\A i \in Invocations :
            /\ pc[i] = "Idle" => pc'[i] \in {"Idle", "Running"}
            /\ pc[i] = "Running" => pc'[i] \in {"Running"} \cup Terminal
            /\ pc[i] \in Terminal =>
                 /\ pc'[i] = pc[i]
                 /\ response'[i] = response[i]
                 /\ child'[i] = child[i]
                 /\ launches'[i] = launches[i]]_vars

C9_Witness ==
    /\ pc[1] = "LaunchFailed" /\ launches[1] = 1 /\ returned[1] = 1
    /\ pc[2] = "Completed" /\ launches[2] = 1 /\ returned[2] = 1
    /\ ~Resp(2).success

(***************************************************************************)
(* C10                                                                     *)
(***************************************************************************)
\* C10: an invocation whose launch failed or whose child has terminated
\* eventually returns its response, whatever the other invocations do; there
\* is no timeout or cancellation, so as long as its child runs an invocation
\* stays Running without a response, and output() is ready to return for an
\* invocation whose child has terminated even while another child runs on.
C10_ReturnsIffChildEnds ==
    /\ \A i \in Invocations :
         (child[i] \in {"exited", "spawn_failed"}) ~> (pc[i] \in Terminal)
    /\ [](\A i \in Invocations :
            child[i] = "running" => (pc[i] = "Running" /\ response[i] = None))
    /\ [][\A i \in Invocations :
            (child[i] = "running" /\ pc'[i] # pc[i]) => child'[i] = "exited"]_vars
    /\ [](\A i \in Invocations :
            (pc[i] = "Running" /\ child[i] = "exited") => ENABLED Complete(i))

C10_Witness ==
    /\ child[1] = "running" /\ pc[1] = "Running" /\ response[1] = None
    /\ pc[2] = "Completed" /\ response[2] # None

====
